---- MODULE Spec2Model ----
(***************************************************************************)
(* Model of main.py: a read-only Reddit client that searches six           *)
(* subreddits, filters and flattens the posts and writes them to a CSV.    *)
(*                                                                         *)
(* Strings whose content matters (title, selftext, text) are tuples of     *)
(* one-character strings, so that str.strip() is computed and not assumed. *)
(* The post attributes score, num_comments and created_utc are copied      *)
(* verbatim into the record by the code and are left out of the model.     *)
(***************************************************************************)
EXTENDS Integers, Sequences, FiniteSets, TLC

\* Total number of posts the six searches yield in one run.
MaxItems == 2

\* Python's None (an absent selftext, an unset handle, a missing file): a value
\* no string of characters equals.
None == << "None" >>

\* SUBREDDITS
SUBREDDITS ==
    << "eldercare", "caregivers", "agingparents", "dementia", "nursing", "premed" >>

\* POST_LIMIT_PER_SUB, the limit= passed to subreddit.search
POST_LIMIT_PER_SUB == 50

\* OUTPUT_CSV
OUTPUT_CSV == "caregiving_reddit_posts.csv"

\* The names get_reddit_client reads with os.environ[...], in reading order.
RequiredEnvSeq ==
    << "REDDIT_CLIENT_ID", "REDDIT_CLIENT_SECRET", "REDDIT_USERNAME", "REDDIT_PASSWORD" >>

\* Mutant of RequiredEnv: the password is read with a default instead.
RequiredEnvNoPassword ==
    { "REDDIT_CLIENT_ID", "REDDIT_CLIENT_SECRET", "REDDIT_USERNAME" }

RequiredEnv == { RequiredEnvSeq[i] : i \in 1..Len(RequiredEnvSeq) }

\* The name read with os.environ.get(..., default).
OptionalEnv == "REDDIT_USER_AGENT"

DefaultUserAgent == "caregiving-intent-miner (read-only research script)"

EnvNames == { RequiredEnvSeq[i] : i \in 1..Len(RequiredEnvSeq) } \cup {OptionalEnv}

(***************************************************************************)
(* Posts the external source may return.                                   *)
(***************************************************************************)
\* Titles: empty, and non-blank with leading whitespace.
TitleSeq == << <<>>, <<" ", "x">> >>

\* Selftexts: absent, whitespace-only, and non-blank with trailing whitespace.
SelftextSeq == << None, <<" ">>, <<"x", " ">> >>

\* A submission as the loop body reads it: id, title, selftext, stickied,
\* permalink. Distinct submissions have distinct ids.
Post(i, j, s) ==
    [ id        |-> <<i, j, s>>,
      title     |-> TitleSeq[i],
      selftext  |-> SelftextSeq[j],
      stickied  |-> s,
      permalink |-> <<"/comments/", <<i, j, s>> >> ]

Posts ==
    { Post(i, j, s) : i \in 1..Len(TitleSeq), j \in 1..Len(SelftextSeq), s \in BOOLEAN }

(***************************************************************************)
(* str.strip() with no argument: removes leading and trailing whitespace.  *)
(***************************************************************************)
Whitespace == { " ", "\n", "\t", "\r" }

RECURSIVE LStrip(_)
LStrip(s) ==
    IF s = <<>> THEN <<>>
    ELSE IF Head(s) \in Whitespace THEN LStrip(Tail(s))
    ELSE s

RECURSIVE RStrip(_)
RStrip(s) ==
    IF s = <<>> THEN <<>>
    ELSE IF s[Len(s)] \in Whitespace THEN RStrip(SubSeq(s, 1, Len(s) - 1))
    ELSE s

Strip(s) == RStrip(LStrip(s))

\* post.selftext or '' : None and '' are both falsy.
SelftextOrEmpty(post) ==
    IF post.selftext = None \/ post.selftext = <<>> THEN <<>> ELSE post.selftext

\* f"{post.title}\n\n{post.selftext or ''}".strip()
Text(post) == Strip(post.title \o <<"\n", "\n">> \o SelftextOrEmpty(post))

\* The dict appended to results.
Record(sub_name, post) ==
    [ subreddit |-> sub_name,
      id        |-> post.id,
      title     |-> post.title,
      body      |-> post.selftext,
      permalink |-> <<"https://www.reddit.com">> \o post.permalink,
      text      |-> Text(post) ]

\* Mutant of LoopBody: the stickied test is missing.
LoopBodyKeepsStickied(res, sub_name, post) ==
    IF Text(post) = <<>> THEN res
    ELSE Append(res, Record(sub_name, post))

\* Mutant of LoopBody: the empty-text test is missing.
LoopBodyKeepsEmpty(res, sub_name, post) ==
    IF post.stickied THEN res
    ELSE Append(res, Record(sub_name, post))

\* Mutant of LoopBody: a post whose id is already collected is skipped.
LoopBodyDedup(res, sub_name, post) ==
    IF post.stickied THEN res
    ELSE IF Text(post) = <<>> THEN res
    ELSE IF \E k \in 1..Len(res) : res[k].id = post.id THEN res
    ELSE Append(res, Record(sub_name, post))

\* Mutant of LoopBody: the record is inserted at the front.
LoopBodyPrepend(res, sub_name, post) ==
    IF post.stickied THEN res
    ELSE IF Text(post) = <<>> THEN res
    ELSE <<Record(sub_name, post)>> \o res

\* Mutant of LoopBody: the text is not stripped.
LoopBodyNoStrip(res, sub_name, post) ==
    IF post.stickied THEN res
    ELSE IF Text(post) = <<>> THEN res
    ELSE Append(res, [Record(sub_name, post) EXCEPT
                        !.text = post.title \o <<"\n", "\n">> \o SelftextOrEmpty(post)])

\* Mutant of LoopBody: the body is normalised like the text ("or ''").
LoopBodyBodyOrEmpty(res, sub_name, post) ==
    IF post.stickied THEN res
    ELSE IF Text(post) = <<>> THEN res
    ELSE Append(res, [Record(sub_name, post) EXCEPT !.body = SelftextOrEmpty(post)])

\* The body of the inner for loop, for one post of the search.
LoopBody(res, sub_name, post) ==
    IF post.stickied THEN res
    ELSE IF Text(post) = <<>> THEN res
    ELSE Append(res, Record(sub_name, post))

(***************************************************************************)
(* The output file.                                                        *)
(***************************************************************************)
Header ==
    << "subreddit", "id", "title", "body", "score", "num_comments",
       "created_utc", "permalink", "text" >>

\* A cell of the CSV: pandas writes a missing value (None) as the empty string.
Cell(v) == IF v = None THEN <<>> ELSE v

CsvRow(r) ==
    [ subreddit |-> r.subreddit,
      id        |-> r.id,
      title     |-> Cell(r.title),
      body      |-> Cell(r.body),
      permalink |-> r.permalink,
      text      |-> Cell(r.text) ]

\* pd.DataFrame(posts): one row per dict, in list order.
DataFrame(posts) == posts

\* Mutant of ToCsv: the last row is not flushed.
ToCsvDropsLast(df) ==
    [ header |-> Header,
      rows   |-> [ k \in 1..(Len(df) - 1) |-> CsvRow(df[k]) ] ]

\* df.to_csv(OUTPUT_CSV, index=False): the file's new content.
ToCsv(df) ==
    [ header |-> Header,
      rows   |-> [ k \in 1..Len(df) |-> CsvRow(df[k]) ] ]

NoFile == [ header |-> None, rows |-> <<>> ]

\* A file left at OUTPUT_CSV by something else before the run.
OldFile == [ header |-> <<"stale">>, rows |-> << "stale" >> ]

\* What a failed write may leave behind when it had already truncated the file.
TruncatedFile == [ header |-> <<>>, rows |-> <<>> ]

\* The process's exit status: none yet, or the status it ended with.
Running == <<>>

Exited(status) == <<status>>

(***************************************************************************)
(* State.                                                                  *)
(***************************************************************************)
VARIABLES
    environ,    \* os.environ: the set of names that are set
    pc,         \* position of the process
    exit_code,  \* Running, else Exited(status)
    stdout,     \* what print() wrote
    stderr,     \* what went to sys.stderr
    reddit,     \* the praw.Reddit handle, None before construction
    sub,        \* index into SUBREDDITS of the for loop of fetch_posts
    results,    \* fetch_posts' results list, main's posts after the return
    feed,       \* what the searches yielded so far: <<channel index, post>>
    requests,   \* the calls made on the handle
    file,       \* content of OUTPUT_CSV
    writes      \* number of completed df.to_csv calls

vars ==
    << environ, pc, exit_code, stdout, stderr, reddit, sub, results, feed,
       requests, file, writes >>

Init ==
    /\ environ \in SUBSET EnvNames
    /\ file \in {NoFile, OldFile}
    /\ pc = "get_reddit_client"
    /\ exit_code = Running
    /\ stdout = <<>>
    /\ stderr = <<>>
    /\ reddit = None
    /\ sub = 0
    /\ results = <<>>
    /\ feed = <<>>
    /\ requests = <<>>
    /\ writes = 0

\* The first name whose os.environ[...] lookup raises KeyError.
FirstMissing ==
    LET missing == { i \in 1..Len(RequiredEnvSeq) :
                       RequiredEnvSeq[i] \in RequiredEnv /\ RequiredEnvSeq[i] \notin environ }
    IN RequiredEnvSeq[CHOOSE i \in missing : \A j \in missing : i <= j]

\* praw.Reddit(...) with username and password: an authorised, writable session.
PrawReddit(user_agent) == [ read_only |-> FALSE, user_agent |-> user_agent ]

\* get_reddit_client: a required name is missing, except KeyError, sys.exit(1)
GetRedditClientMissing ==
    /\ pc = "get_reddit_client"
    /\ ~ (RequiredEnv \subseteq environ)
    /\ stderr' = Append(stderr, <<"Missing environment variable", FirstMissing>>)
    /\ exit_code' = Exited(1)
    /\ pc' = "sys_exit"
    /\ UNCHANGED << environ, stdout, reddit, sub, results, feed, requests, file, writes >>

\* Mutant of GetRedditClient: read_only is never set.
GetRedditClientWritable ==
    /\ pc = "get_reddit_client"
    /\ RequiredEnv \subseteq environ
    /\ reddit' = PrawReddit(IF OptionalEnv \in environ THEN "env" ELSE DefaultUserAgent)
    /\ pc' = "fetch_posts"
    /\ UNCHANGED << environ, exit_code, stdout, stderr, sub, results, feed, requests,
                    file, writes >>

\* get_reddit_client: all required names are set
GetRedditClient ==
    /\ pc = "get_reddit_client"
    /\ RequiredEnv \subseteq environ
    /\ reddit' = [ PrawReddit(IF OptionalEnv \in environ THEN "env" ELSE DefaultUserAgent)
                     EXCEPT !.read_only = TRUE ]
    /\ pc' = "fetch_posts"
    /\ UNCHANGED << environ, exit_code, stdout, stderr, sub, results, feed, requests,
                    file, writes >>

\* fetch_posts: results = []
FetchPostsEnter ==
    /\ pc = "fetch_posts"
    /\ results' = <<>>
    /\ sub' = 1
    /\ pc' = "for_sub"
    /\ UNCHANGED << environ, exit_code, stdout, stderr, reddit, feed, requests, file, writes >>

\* for sub_name in SUBREDDITS: print, reddit.subreddit, subreddit.search
ForSub ==
    /\ pc = "for_sub"
    /\ sub <= Len(SUBREDDITS)
    /\ stdout' = Append(stdout, <<"Fetching posts from r/", SUBREDDITS[sub]>>)
    /\ requests' = Append(requests,
                          [ op |-> "search", subreddit |-> SUBREDDITS[sub],
                            read_only |-> reddit.read_only ])
    /\ pc' = "search"
    /\ UNCHANGED << environ, exit_code, stderr, reddit, sub, results, feed, file, writes >>

\* Number of posts the current search has yielded.
Yielded == Cardinality({ i \in 1..Len(feed) : feed[i].sub = sub })

\* for post in subreddit.search(...): the search yields a post, one pass of the body
SearchYield ==
    /\ pc = "search"
    /\ Len(feed) < MaxItems
    /\ Yielded < POST_LIMIT_PER_SUB
    /\ \E post \in Posts :
         /\ feed' = Append(feed, [ sub |-> sub, post |-> post ])
         /\ results' = LoopBody(results, SUBREDDITS[sub], post)
    /\ UNCHANGED << environ, pc, exit_code, stdout, stderr, reddit, sub, requests,
                    file, writes >>

\* the search is exhausted: next subreddit
SearchExhausted ==
    /\ pc = "search"
    /\ sub' = sub + 1
    /\ pc' = "for_sub"
    /\ UNCHANGED << environ, exit_code, stdout, stderr, reddit, results, feed, requests,
                    file, writes >>

\* Mutant of SearchRaises: the error is caught per subreddit and the loop goes on.
SearchRaisesIsolated ==
    /\ pc = "search"
    /\ stderr' = Append(stderr, <<"Traceback", "search">>)
    /\ sub' = sub + 1
    /\ pc' = "for_sub"
    /\ UNCHANGED << environ, exit_code, stdout, reddit, results, feed, requests, file, writes >>

\* the search raises: nothing catches it, the interpreter prints the traceback
\* and exits with status 1
SearchRaises ==
    /\ pc = "search"
    /\ stderr' = Append(stderr, <<"Traceback", "search">>)
    /\ exit_code' = Exited(1)
    /\ pc' = "traceback"
    /\ UNCHANGED << environ, stdout, reddit, sub, results, feed, requests, file, writes >>

\* return results
FetchPostsReturn ==
    /\ pc = "for_sub"
    /\ sub = Len(SUBREDDITS) + 1
    /\ pc' = "main_posts"
    /\ UNCHANGED << environ, exit_code, stdout, stderr, reddit, sub, results, feed,
                    requests, file, writes >>

NoPostsMessage == << "No posts collected. Try adjusting SEARCH_QUERY or limits." >>

\* Mutant of MainNoPosts: the empty frame is written all the same.
MainNoPostsWrites ==
    /\ pc = "main_posts"
    /\ results = <<>>
    /\ stdout' = Append(stdout, NoPostsMessage)
    /\ file' = ToCsv(DataFrame(results))
    /\ exit_code' = Exited(0)
    /\ pc' = "returned"
    /\ UNCHANGED << environ, stderr, reddit, sub, results, feed, requests, writes >>

\* main: if not posts: print, return
MainNoPosts ==
    /\ pc = "main_posts"
    /\ results = <<>>
    /\ stdout' = Append(stdout, NoPostsMessage)
    /\ exit_code' = Exited(0)
    /\ pc' = "returned"
    /\ UNCHANGED << environ, stderr, reddit, sub, results, feed, requests, file, writes >>

\* main: DataFrame, to_csv, print
MainSave ==
    /\ pc = "main_posts"
    /\ results # <<>>
    /\ LET df == DataFrame(results)
       IN /\ file' = ToCsv(df)
          /\ stdout' = Append(stdout, <<"Saved", Len(df), OUTPUT_CSV>>)
    /\ writes' = writes + 1
    /\ exit_code' = Exited(0)
    /\ pc' = "returned"
    /\ UNCHANGED << environ, stderr, reddit, sub, results, feed, requests >>

\* main: to_csv raises (permissions, disk full); the file is untouched or truncated
ToCsvRaises ==
    /\ pc = "main_posts"
    /\ results # <<>>
    /\ file' \in {file, TruncatedFile}
    /\ stderr' = Append(stderr, <<"Traceback", "to_csv">>)
    /\ exit_code' = Exited(1)
    /\ pc' = "traceback"
    /\ UNCHANGED << environ, stdout, reddit, sub, results, feed, requests, writes >>

Next ==
    \/ GetRedditClientMissing
    \/ GetRedditClient
    \/ FetchPostsEnter
    \/ ForSub
    \/ SearchYield
    \/ SearchExhausted
    \/ SearchRaises
    \/ FetchPostsReturn
    \/ MainNoPosts
    \/ MainSave
    \/ ToCsvRaises

Spec == Init /\ [][Next]_vars

(***************************************************************************)
(* Vocabulary of the properties, stated without the code's operators.      *)
(***************************************************************************)
\* The four credential names.
Credentials == EnvNames \ {OptionalEnv}

\* A string that is absent, empty or whitespace-only.
AllBlank(s) == s = None \/ \A i \in 1..Len(s) : s[i] \in Whitespace

\* A post that is not pinned and has some visible title or body.
Accepted(post) == ~ post.stickied /\ ~ (AllBlank(post.title) /\ AllBlank(post.selftext))

AcceptedIdx == { i \in 1..Len(feed) : Accepted(feed[i].post) }

\* Position in the feed of the k-th accepted post.
Source(k) ==
    CHOOSE i \in AcceptedIdx : Cardinality({ j \in AcceptedIdx : j <= i }) = k

\* r was built from feed entry e.
FromFeed(r, e) == r.subreddit = SUBREDDITS[e.sub] /\ r.id = e.post.id

SubIndex(name) == CHOOSE i \in 1..Len(SUBREDDITS) : SUBREDDITS[i] = name

\* t is s without its leading and trailing whitespace.
IsTrimOf(t, s) ==
    \E a \in 0..Len(s) : \E b \in 0..Len(s) :
        /\ a + b <= Len(s)
        /\ \A i \in 1..a : s[i] \in Whitespace
        /\ \A i \in (Len(s) - b + 1)..Len(s) : s[i] \in Whitespace
        /\ t = SubSeq(s, a + 1, Len(s) - b)
        /\ t = <<>> \/ (t[1] \notin Whitespace /\ t[Len(t)] \notin Whitespace)

InitialFiles == {NoFile, OldFile}

SearchFailed == \E i \in 1..Len(stderr) : stderr[i] = <<"Traceback", "search">>

(***************************************************************************)
(* C1: every Record comes from a returned item that is not pinned and has  *)
(* non-blank title or body; no pinned item and no item whose title and     *)
(* body are both blank has a Record.                                       *)
(***************************************************************************)
C1_OnlyAcceptedItemsEmitted ==
    /\ \A k \in 1..Len(results) :
         \E i \in 1..Len(feed) : FromFeed(results[k], feed[i]) /\ Accepted(feed[i].post)
    /\ \A i \in 1..Len(feed) :
         (feed[i].post.stickied
            \/ (AllBlank(feed[i].post.title) /\ AllBlank(feed[i].post.selftext)))
         => \A k \in 1..Len(results) : results[k].id # feed[i].post.id

C1_Witness ==
    /\ pc = "returned"
    /\ Len(feed) = 2
    /\ feed[1].post.stickied /\ ~ AllBlank(feed[1].post.title)
    /\ ~ feed[2].post.stickied /\ AllBlank(feed[2].post.title)
         /\ AllBlank(feed[2].post.selftext)
    /\ results = <<>>

(***************************************************************************)
(* C2: at a successful end the number of Records, and of rows written,     *)
(* equals the number of accepted items returned over the six channels; an  *)
(* item returned under two channels gives two Records.                     *)
(***************************************************************************)
C2_RecordCount ==
    pc = "returned" =>
        /\ Len(results) = Cardinality(AcceptedIdx)
        /\ (IF writes = 0 THEN 0 ELSE Len(file.rows)) = Cardinality(AcceptedIdx)

C2_Witness ==
    /\ pc = "returned"
    /\ writes = 1
    /\ Len(results) = 2
    /\ results[1].id = results[2].id
    /\ results[1].subreddit # results[2].subreddit

(***************************************************************************)
(* C3: Records are in channel order, within a channel in the order the     *)
(* search returned the items, and the sequence only grows at its end.      *)
(***************************************************************************)
C3_OrderInv ==
    /\ Len(results) = Cardinality(AcceptedIdx)
    /\ \A k \in 1..Len(results) : FromFeed(results[k], feed[Source(k)])
    /\ \A k \in 1..Len(results) : \A l \in 1..Len(results) :
         k < l => SubIndex(results[k].subreddit) <= SubIndex(results[l].subreddit)

C3_AppendOnly ==
    \/ results' = results
    \/ /\ Len(results') = Len(results) + 1
       /\ SubSeq(results', 1, Len(results)) = results

C3_OrderPreserved == []C3_OrderInv /\ [][C3_AppendOnly]_vars

C3_Witness ==
    /\ Len(results) = 2
    /\ results[1].id # results[2].id
    /\ results[1].subreddit = results[2].subreddit

(***************************************************************************)
(* C4: the process exits with code 1 at startup exactly when one of the    *)
(* four credentials is missing, whatever else is set; then no client was   *)
(* constructed, no channel queried and the output file not touched.        *)
(***************************************************************************)
C4_StartupInv ==
    /\ pc # "get_reddit_client" =>
         ((pc = "sys_exit" /\ exit_code = Exited(1)) <=> ~ (Credentials \subseteq environ))
    /\ pc = "sys_exit" =>
         /\ reddit = None
         /\ requests = <<>>
         /\ feed = <<>>
         /\ writes = 0
         /\ file \in InitialFiles
         /\ Len(stderr) = 1
         /\ stderr[1][2] \in Credentials \ environ

C4_ExitOneIffCredentialMissing ==
    []C4_StartupInv /\ [][pc' = "sys_exit" => file' = file]_vars

C4_Witness ==
    /\ pc = "sys_exit"
    /\ Credentials \ environ = {"REDDIT_PASSWORD"}
    /\ OptionalEnv \in environ
    /\ file = OldFile

(***************************************************************************)
(* C5: with no Record after the six channels, the run prints the notice,   *)
(* does not write (the file stays as it was) and exits 0.                  *)
(***************************************************************************)
C5_EmptyInv ==
    (pc = "returned" /\ results = <<>>) =>
        /\ exit_code = Exited(0)
        /\ writes = 0
        /\ file \in InitialFiles
        /\ stdout[Len(stdout)] = NoPostsMessage
        /\ Len(requests) = Len(SUBREDDITS)

C5_EmptyStep ==
    (pc = "main_posts" /\ results = <<>>) =>
        /\ file' = file
        /\ writes' = writes
        /\ pc' = "returned"
        /\ exit_code' = Exited(0)

C5_EmptyResultNoWrite == []C5_EmptyInv /\ [][C5_EmptyStep]_vars

C5_Witness ==
    /\ pc = "returned"
    /\ results = <<>>
    /\ Len(feed) = 2
    /\ file = OldFile

(***************************************************************************)
(* C6: a search error aborts the run: no later channel is queried, nothing *)
(* collected reaches the file, the exit status is non-zero; the file is    *)
(* written only when all six channels were fully processed.                *)
(***************************************************************************)
C6_AbortInv ==
    /\ SearchFailed =>
         /\ pc = "traceback"
         /\ exit_code \notin {Running, Exited(0)}
         /\ writes = 0
         /\ file \in InitialFiles
         /\ Len(requests) = sub
    /\ writes > 0 =>
         /\ ~ SearchFailed
         /\ sub = Len(SUBREDDITS) + 1
         /\ Len(requests) = Len(SUBREDDITS)

C6_AbortStep ==
    /\ pc # "traceback"
    /\ SearchFailed' => (file' = file /\ requests' = requests)

C6_SearchErrorAborts == []C6_AbortInv /\ [][C6_AbortStep]_vars

C6_Witness ==
    /\ SearchFailed
    /\ pc = "traceback"
    /\ sub = 2
    /\ Len(results) = 1
    /\ Len(feed) = 2
    /\ feed[2].sub = 2
    /\ file = OldFile

(***************************************************************************)
(* C7: the handle get_reddit_client returns is read-only and stays so;     *)
(* every call made on it is a search made while it is read-only.           *)
(***************************************************************************)
C7_ReadOnlyInv ==
    /\ pc \notin {"get_reddit_client", "sys_exit"} => reddit.read_only
    /\ \A i \in 1..Len(requests) : requests[i].op = "search" /\ requests[i].read_only

C7_ReadOnly ==
    []C7_ReadOnlyInv /\ [][pc # "get_reddit_client" => reddit' = reddit]_vars

C7_Witness ==
    /\ pc = "returned"
    /\ writes = 1
    /\ Len(requests) = Len(SUBREDDITS)
    /\ reddit.read_only

(***************************************************************************)
(* C8 as stated: an unpinned item with absent body and non-blank title     *)
(* gives a Record whose body is the empty string and whose text is the     *)
(* trimmed title.                                                          *)
(***************************************************************************)
C8_AbsentBodyIsEmptyString ==
    /\ Len(results) = Cardinality(AcceptedIdx)
    /\ \A k \in 1..Len(results) :
         LET post == feed[Source(k)].post
         IN (post.selftext = None /\ ~ AllBlank(post.title)) =>
                /\ results[k].body = <<>>
                /\ IsTrimOf(results[k].text, post.title)

(***************************************************************************)
(* C8 amended: such an item gives a Record whose body is the absent value  *)
(* itself and whose text is the trimmed title; the empty string is what    *)
(* the exported row holds in its body cell.                                *)
(***************************************************************************)
C8_AbsentBodyKept ==
    /\ Len(results) = Cardinality(AcceptedIdx)
    /\ \A k \in 1..Len(results) :
         LET post == feed[Source(k)].post
         IN (post.selftext = None /\ ~ AllBlank(post.title)) =>
                /\ results[k].body = None
                /\ IsTrimOf(results[k].text, post.title)
                /\ (pc = "returned" /\ writes = 1) => file.rows[k].body = <<>>

C8_Witness ==
    /\ pc = "returned"
    /\ writes = 1
    /\ Len(results) = 1
    /\ feed[Source(1)].post.selftext = None
    /\ results[1].title = <<" ", "x">>
    /\ results[1].text = <<"x">>

(***************************************************************************)
(* C9: a Record's text is trim(title + two newlines + (body or "")), its   *)
(* title and body are the item's, untrimmed, and its channel is the one    *)
(* whose search returned the item.                                         *)
(***************************************************************************)
C9_RecordFields ==
    /\ Len(results) = Cardinality(AcceptedIdx)
    /\ \A k \in 1..Len(results) :
         LET e == feed[Source(k)]
             body == IF e.post.selftext = None THEN <<>> ELSE e.post.selftext
         IN /\ IsTrimOf(results[k].text, e.post.title \o <<"\n", "\n">> \o body)
            /\ results[k].title = e.post.title
            /\ results[k].body = e.post.selftext
            /\ results[k].subreddit = SUBREDDITS[e.sub]

C9_Witness ==
    /\ Len(results) = 1
    /\ results[1].title = <<" ", "x">>
    /\ results[1].body = <<"x", " ">>
    /\ results[1].text = <<"x", "\n", "\n", "x">>
    /\ results[1].subreddit = "dementia"

(***************************************************************************)
(* C10: with Records collected the file is written once, after the six     *)
(* channels, one row per Record in order, replacing what was there; the    *)
(* confirmation comes after the write and states the number of Records.    *)
(***************************************************************************)
C10_WriteInv ==
    /\ writes <= 1
    /\ writes = 1 => (sub = Len(SUBREDDITS) + 1 /\ Len(requests) = Len(SUBREDDITS))
    /\ (pc = "returned" /\ results # <<>>) =>
         /\ writes = 1
         /\ file.header = Header
         /\ Len(file.rows) = Len(results)
         /\ \A k \in 1..Len(results) :
              /\ file.rows[k].id = results[k].id
              /\ file.rows[k].subreddit = results[k].subreddit
              /\ file.rows[k].text = results[k].text
         /\ stdout[Len(stdout)] = <<"Saved", Len(results), OUTPUT_CSV>>
    /\ \A i \in 1..Len(stdout) :
         stdout[i][1] = "Saved" => (writes = 1 /\ stdout[i][2] = Len(file.rows))

C10_WriteStep ==
    writes' # writes => (pc = "main_posts" /\ results # <<>> /\ writes' = writes + 1)

C10_WrittenOnce == []C10_WriteInv /\ [][C10_WriteStep]_vars

C10_Witness ==
    /\ pc = "returned"
    /\ writes = 1
    /\ Len(results) = 2
    /\ results[1].subreddit # results[2].subreddit
    /\ Len(file.rows) = 2

====
